---- MODULE Spec2Model ----
(***************************************************************************)
(* Model of the telemetry decoder of src/decHexBinConverter.c (the second  *)
(* program of the file, lines 63-410): a read-validate-parse-decode-alarm  *)
(* loop over lines of standard input.                                      *)
(*                                                                         *)
(* Characters are their ASCII codes, C strings are NUL-terminated arrays,  *)
(* integers keep the width of their C type.  A uint32_t is the sequence of *)
(* its 32 bits, least significant first (bit k is element k+1), because a  *)
(* 32-bit unsigned value does not fit the integers TLC computes with.      *)
(***************************************************************************)
EXTENDS Integers, Sequences, FiniteSets, TLC

VARIABLES
    pc,            \* the statement of main()'s loop that runs next
    stdin,         \* characters typed and not yet read by getchar()
    dataString,    \* main's char dataString[HEX_INPUT_BUFFER_SIZE], as <<d[0], ..., d[8]>>
    receivedData,  \* main's uint32_t receivedData, as its 32 bits
    temperature,   \* main's int16_t temperature
    pressure,      \* main's uint16_t pressure
    humidity,      \* main's uint8_t humidity
    fluidLevel,    \* main's uint16_t fluidLevel
    alarms,        \* the alarm lines printed by the last call of alarm(), in print order
    status,        \* what the last pass of enterData's do-while printed / decided
    exitCode,      \* the status given to exit(), -1 while the process runs
    curLine,       \* history: the line typed last (without its newline)
    prevData,      \* history: dataString as the last pass of enterData found it
    nLines,        \* history: number of lines typed so far
    nPasses,       \* history: number of passes of enterData's do-while completed so far
    sensor         \* history: the raw field values <<t, p, h, f>> the sender packed

vars == <<pc, stdin, dataString, receivedData, temperature, pressure, humidity,
          fluidLevel, alarms, status, exitCode, curLine, prevData, nLines, nPasses, sensor>>

(***************************************************************************)
(* Program constants                                                       *)
(***************************************************************************)
TEMPERATURE_BITS_MASK == 255
PRESSURE_BITS_SHIFT == 8
PRESSURE_BITS_MASK == 127
HUMIDITY_BITS_SHIFT == 15
HUMIDITY_BITS_MASK == 15
FLUID_LEVEL_BITS_SHIFT == 19
MAX_HEX_DIGITS == 8
HEX_INPUT_BUFFER_SIZE == 9
HUMIDITY_BITS == 4

(***************************************************************************)
(* C integer types and bit operations                                      *)
(***************************************************************************)
WORD_BITS == 32
BitIndex == 1..WORD_BITS
Word32 == [BitIndex -> {0, 1}]

ToUint8(x) == x % 256
ToUint16(x) == x % 65536
ToInt16(x) == LET m == x % 65536 IN IF m >= 32768 THEN m - 65536 ELSE m

\* bit k (0-based) of a non-negative int below 2^31
BitOf(n, k) == IF k > 30 THEN 0 ELSE (n \div (2 ^ k)) % 2

\* integer promotion of a small unsigned value to a 32-bit word
Widen(n) == [i \in BitIndex |-> BitOf(n, i - 1)]

\* the low `width` bits of a word as a number (width <= 31)
RECURSIVE LowBits(_, _)
LowBits(w, width) ==
    IF width = 0 THEN 0 ELSE w[width] * (2 ^ (width - 1)) + LowBits(w, width - 1)

\* x >> n on uint32_t
ShiftRight(w, n) == [i \in BitIndex |-> IF i + n <= WORD_BITS THEN w[i + n] ELSE 0]
\* x << n on uint32_t
ShiftLeft(w, n) == [i \in BitIndex |-> IF i - n >= 1 THEN w[i - n] ELSE 0]
\* x & y, x | y on uint32_t
BitAnd(a, b) == [i \in BitIndex |-> a[i] * b[i]]
BitOr(a, b) == [i \in BitIndex |-> IF a[i] = 1 \/ b[i] = 1 THEN 1 ELSE 0]

\* casts of a uint32_t to the 16- and 8-bit types
CastUint16(w) == LowBits(w, 16)
CastUint8(w) == LowBits(w, 8)
CastShort(w) == ToInt16(LowBits(w, 16))
CastInt(w) == IF w[WORD_BITS] = 1 THEN (LowBits(w, 31) - 2147483647) - 1 ELSE LowBits(w, 31)

(***************************************************************************)
(* Characters and C strings                                                *)
(***************************************************************************)
NUL == 0
NEWLINE == 10
Ascii == [c \in {"0", "1", "9", "A", "D", "E", "F", "G", "N", "X",
                 "a", "d", "e", "f", "g", "n", "x", " ", "-"} |->
            CASE c = "0" -> 48 [] c = "1" -> 49 [] c = "9" -> 57
              [] c = "A" -> 65 [] c = "D" -> 68 [] c = "E" -> 69 [] c = "F" -> 70
              [] c = "G" -> 71 [] c = "N" -> 78 [] c = "X" -> 88
              [] c = "a" -> 97 [] c = "d" -> 100 [] c = "e" -> 101 [] c = "f" -> 102
              [] c = "g" -> 103 [] c = "n" -> 110 [] c = "x" -> 120
              [] c = " " -> 32 [] c = "-" -> 45]

\* <ctype.h> in the "C" locale, on 7-bit characters
isdigit(c) == c >= 48 /\ c <= 57
islower(c) == c >= 97 /\ c <= 122
isspace(c) == c = 32 \/ (c >= 9 /\ c <= 13)
toupper(c) == IF islower(c) THEN c - 32 ELSE c

\* element i (0-based) of a char array, and the array with element i set
At(buf, i) == buf[i + 1]
Put(buf, i, c) == [buf EXCEPT ![i + 1] = c]

\* the characters of the C string starting at buf[from], up to its NUL
RECURSIVE CStringFrom(_, _)
CStringFrom(buf, from) ==
    IF from >= Len(buf) \/ At(buf, from) = NUL THEN <<>>
    ELSE <<At(buf, from)>> \o CStringFrom(buf, from + 1)
CString(buf) == CStringFrom(buf, 0)

\* strcmp(a, b) == 0 for a char array a and a string literal b
strcmpIsZero(buf, literal) == CString(buf) = literal

(***************************************************************************)
(* Input acquisition                                                       *)
(***************************************************************************)
\* faulty variant: nothing discarded, the rest of a long line stays unread
flushBuffer_None(in) == in

\* flushBuffer: getchar() until a newline has been read; the unread rest
RECURSIVE flushBuffer(_)
flushBuffer(in) ==
    IF in = <<>> THEN <<>>
    ELSE IF Head(in) = NEWLINE THEN Tail(in)
    ELSE flushBuffer(Tail(in))

\* getBuffer's for loop from index i on: the buffer and the unread input it leaves
RECURSIVE getBufferLoop(_, _, _, _)
getBufferLoop(input, in, i, table_size) ==
    IF i >= table_size \/ in = <<>> THEN [buf |-> input, in |-> in]
    ELSE LET tempChar == Head(in)
         IN  IF tempChar = NEWLINE
             THEN [buf |-> Put(input, i, NUL), in |-> Tail(in)]
             ELSE IF i >= table_size - 1
             THEN getBufferLoop(Put(input, table_size - 1, NUL),
                                flushBuffer(Tail(in)), i + 1, table_size)
             ELSE getBufferLoop(Put(input, i, tempChar), Tail(in), i + 1, table_size)

getBuffer(input, in, table_size) == getBufferLoop(input, in, 0, ToUint8(table_size))

RECURSIVE dataToUpperCaseLoop(_, _, _)
dataToUpperCaseLoop(data, max_size, i) ==
    IF i < max_size /\ At(data, i) # NUL
    THEN dataToUpperCaseLoop(Put(data, i, toupper(At(data, i))), max_size, i + 1)
    ELSE data

dataToUpperCase(dataToBeTranformed, max_size) ==
    dataToUpperCaseLoop(dataToBeTranformed, ToUint8(max_size), 0)

RECURSIVE flushDataLoop(_, _, _)
flushDataLoop(data, size_of_table, i) ==
    IF i < size_of_table /\ At(data, i) # NUL
    THEN flushDataLoop(Put(data, i, NUL), size_of_table, i + 1)
    ELSE data

flushData(dataToBeFlashed, size_of_table) ==
    flushDataLoop(dataToBeFlashed, ToUint8(size_of_table), 0)

\* faulty variant: only the first three characters compared, as strncmp would
checkIfEnd_Prefix(checkIfDataIsEnd) ==
    /\ Len(CString(checkIfDataIsEnd)) >= 3
    /\ SubSeq(CString(checkIfDataIsEnd), 1, 3) = <<69, 78, 68>>

END_KEYWORD == <<Ascii["E"], Ascii["N"], Ascii["D"]>>
checkIfEnd(checkIfDataIsEnd) == strcmpIsZero(checkIfDataIsEnd, END_KEYWORD)

RECURSIVE checkEnteredDataLoop(_, _, _)
checkEnteredDataLoop(data, max_size, i) ==
    IF i < max_size /\ At(data, i) # NUL
    THEN IF ~isdigit(At(data, i)) /\ (At(data, i) < Ascii["A"] \/ At(data, i) > Ascii["F"])
         THEN FALSE
         ELSE checkEnteredDataLoop(data, max_size, i + 1)
    ELSE TRUE

\* faulty variant: the upper bound 'F' of the letter test forgotten
checkEnteredData_NoUpperBound(dataToBeChecked, max_size) ==
    \A i \in 0..(ToUint8(max_size) - 1) :
        (\A j \in 0..i : At(dataToBeChecked, j) # NUL) =>
            (isdigit(At(dataToBeChecked, i)) \/ At(dataToBeChecked, i) >= 65)

checkEnteredData(dataToBeChecked, max_size) ==
    checkEnteredDataLoop(dataToBeChecked, ToUint8(max_size), 0)

\* one pass of the body of enterData's do-while on the buffer and the unread
\* input: the buffer and the input it leaves, and the branch it took
\* ("empty" and "wrong" print the retry message and loop, "closing" calls
\* exit(0), "accepted" breaks out of the loop)
enterDataPass(buffer, in, max_size, size_of_whole_table) ==
    LET got == getBuffer(buffer, in, size_of_whole_table)
        enteredData == IF At(got.buf, 0) # NUL
                       THEN dataToUpperCase(got.buf, max_size)
                       ELSE got.buf
    IN  IF At(enteredData, 0) = NUL
        THEN [data |-> flushData(enteredData, size_of_whole_table), in |-> got.in,
              status |-> "empty"]
        ELSE IF checkIfEnd(enteredData)
        THEN [data |-> enteredData, in |-> got.in, status |-> "closing"]
        ELSE IF ~checkEnteredData(enteredData, max_size)
        THEN [data |-> flushData(enteredData, size_of_whole_table), in |-> got.in,
              status |-> "wrong"]
        ELSE [data |-> enteredData, in |-> got.in, status |-> "accepted"]

(***************************************************************************)
(* Parsing: strtoul(s, NULL, 16) and the cast to uint32_t                  *)
(***************************************************************************)
\* value of a base-16 digit character of either case, -1 for any other character
HexDigitValue(c) ==
    IF isdigit(c) THEN c - 48
    ELSE IF c >= 65 /\ c <= 70 THEN c - 55
    ELSE IF c >= 97 /\ c <= 102 THEN c - 87
    ELSE -1

RECURSIVE SkipSpace(_)
SkipSpace(s) == IF s # <<>> /\ isspace(Head(s)) THEN SkipSpace(Tail(s)) ELSE s

\* the longest prefix of s made of base-16 digits, as digit values
RECURSIVE HexPrefix(_)
HexPrefix(s) ==
    IF s = <<>> \/ HexDigitValue(Head(s)) < 0 THEN <<>>
    ELSE <<HexDigitValue(Head(s))>> \o HexPrefix(Tail(s))

\* acc * 16 + d on a 32-bit word, and whether acc * 16 overflows 32 bits
Times16Plus(acc, d) == BitOr(ShiftLeft(acc, 4), Widen(d))
Overflows(acc) == \E i \in (WORD_BITS - 3)..WORD_BITS : acc[i] = 1

\* the accumulation over the digits; "overflow" once the value leaves 32 bits
RECURSIVE Accumulate(_, _)
Accumulate(acc, digits) ==
    IF digits = <<>> THEN [value |-> acc, overflow |-> FALSE]
    ELSE IF Overflows(acc) THEN [value |-> acc, overflow |-> TRUE]
    ELSE Accumulate(Times16Plus(acc, Head(digits)), Tail(digits))

Zero32 == [i \in BitIndex |-> 0]
Ones32 == [i \in BitIndex |-> 1]
\* two's complement negation on uint32_t: ~x + 1
RECURSIVE AddOne(_, _)
AddOne(w, i) ==
    IF i > WORD_BITS THEN w
    ELSE IF w[i] = 0 THEN [w EXCEPT ![i] = 1]
    ELSE AddOne([w EXCEPT ![i] = 0], i + 1)
Negate(w) == AddOne([i \in BitIndex |-> 1 - w[i]], 1)

\* (uint32_t) strtoul(s, NULL, 16): leading white space, an optional sign, an
\* optional 0x / 0X, then base-16 digits up to the first other character.  A
\* value that does not fit unsigned long gives ULONG_MAX, whose low 32 bits are
\* all ones; a value that fits a 64-bit unsigned long but not 32 bits cannot be
\* told apart from that here, and needs more than 8 digits.
convertToNumber(stringToBeConverted) ==
    LET s0 == SkipSpace(CString(stringToBeConverted))
        negative == s0 # <<>> /\ Head(s0) = 45
        s1 == IF s0 # <<>> /\ (Head(s0) = 45 \/ Head(s0) = 43) THEN Tail(s0) ELSE s0
        prefixed == Len(s1) >= 3 /\ s1[1] = 48 /\ toupper(s1[2]) = 88
                        /\ HexDigitValue(s1[3]) >= 0
        s2 == IF prefixed THEN Tail(Tail(s1)) ELSE s1
        r == Accumulate(Zero32, HexPrefix(s2))
    IN  IF r.overflow THEN Ones32
        ELSE IF negative THEN Negate(r.value)
        ELSE r.value

(***************************************************************************)
(* Record codec: the four extraction functions                             *)
(***************************************************************************)
\* faulty variant: the result kept in an unsigned 8-bit type, so a raw value
\* below 20 wraps instead of going negative
getTemperature_Unsigned8(tempData, maskForTemp) ==
    ToUint8(CastShort(BitAnd(tempData, Widen(ToUint8(maskForTemp)))) - 20)

getTemperature(tempData, maskForTemp) ==
    LET masked == BitAnd(tempData, Widen(ToUint8(maskForTemp)))
    IN  ToInt16(CastShort(masked) - 20)

getPressure(tempData, maskForPressure, shiftForPressure) ==
    LET shifted == ShiftRight(tempData, ToUint8(shiftForPressure))
        masked  == BitAnd(shifted, Widen(ToUint8(maskForPressure)))
    IN  ToUint16(CastInt(masked) + 1010)

\* faulty variant: a mask one bit too wide, reaching into the fluid-level field
getHumidity_WideMask(tempData, maskForHumidity, shiftForHumidity) ==
    CastUint8(BitAnd(ShiftRight(tempData, ToUint8(shiftForHumidity)),
                     Widen(2 * ToUint8(maskForHumidity) + 1)))

getHumidity(tempData, maskForHumidity, shiftForHumidity) ==
    LET shifted == ShiftRight(tempData, ToUint8(shiftForHumidity))
        masked  == BitAnd(shifted, Widen(ToUint8(maskForHumidity)))
    IN  CastUint8(masked)

getFluidLevel(tempData, shiftForFluidLevel) ==
    CastUint16(ShiftRight(tempData, ToUint8(shiftForFluidLevel)))

(***************************************************************************)
(* Alarm evaluator                                                         *)
(***************************************************************************)
RECURSIVE CountBitsLoop(_, _, _, _)
CountBitsLoop(bitsToBeCounted, checkedBits, i, counter) ==
    IF i >= checkedBits THEN counter
    ELSE LET temp == (bitsToBeCounted \div (2 ^ i)) % 2
         IN  CountBitsLoop(bitsToBeCounted, checkedBits, i + 1,
                           IF temp # 0 THEN ToUint8(counter + 1) ELSE counter)

\* faulty variant: two set bits already alarm
countHumidityBits_AtLeastTwo(bitsToBeCounted, checkedBits) ==
    IF CountBitsLoop(ToUint8(bitsToBeCounted), ToUint8(checkedBits), 0, 0) >= 2
    THEN 1 ELSE 0

\* returns the int value of (counter > 2)
countHumidityBits(bitsToBeCounted, checkedBits) ==
    IF CountBitsLoop(ToUint8(bitsToBeCounted), ToUint8(checkedBits), 0, 0) > 2
    THEN 1 ELSE 0

\* faulty variant: the lower bound exclusive
TemperatureCheck_StrictLow(temperatureData) ==
    IF temperatureData < 4 THEN <<"TEMP_LOW">>
    ELSE IF temperatureData > 100 THEN <<"TEMP_HIGH">>
    ELSE <<>>

TemperatureCheck(temperatureData) ==
    IF temperatureData <= 4 THEN <<"TEMP_LOW">>
    ELSE IF temperatureData > 100 THEN <<"TEMP_HIGH">>
    ELSE <<>>

\* faulty variant: the upper bound inclusive
PressureCheck_InclusiveHigh(pressureData) ==
    IF pressureData < 1013 THEN <<"PRESSURE_LOW">>
    ELSE IF pressureData >= 1135 THEN <<"PRESSURE_HIGH">>
    ELSE <<>>

PressureCheck(pressureData) ==
    IF pressureData < 1013 THEN <<"PRESSURE_LOW">>
    ELSE IF pressureData > 1135 THEN <<"PRESSURE_HIGH">>
    ELSE <<>>

HumidityCheck(humidityData) ==
    IF countHumidityBits(humidityData, HUMIDITY_BITS) # 0 THEN <<"HUMIDITY">>
    ELSE <<>>

\* faulty variant: the maximum of the printed message (8100 l) used as threshold
FluidLevelCheck_MessageMaximum(fluidLevelData) ==
    IF fluidLevelData <= 0 THEN <<"TANK_EMPTY">>
    ELSE IF fluidLevelData > 8100 THEN <<"TANK_OVERFLOW">>
    ELSE <<>>

FluidLevelCheck(fluidLevelData) ==
    IF fluidLevelData <= 0 THEN <<"TANK_EMPTY">>
    ELSE IF fluidLevelData > 8000 THEN <<"TANK_OVERFLOW">>
    ELSE <<>>

\* faulty variant: one else-if chain over the four fields, so the first field
\* that alarms hides the others
alarm_FirstMatch(temperatureData, pressureData, humidityData, fluidLevelData) ==
    IF TemperatureCheck(ToInt16(temperatureData)) # <<>>
    THEN TemperatureCheck(ToInt16(temperatureData))
    ELSE IF PressureCheck(ToUint16(pressureData)) # <<>>
    THEN PressureCheck(ToUint16(pressureData))
    ELSE IF HumidityCheck(ToUint8(humidityData)) # <<>>
    THEN HumidityCheck(ToUint8(humidityData))
    ELSE FluidLevelCheck(ToUint16(fluidLevelData))

\* the lines alarm() prints, in the order it prints them
alarm(temperatureData, pressureData, humidityData, fluidLevelData) ==
    TemperatureCheck(ToInt16(temperatureData))
        \o PressureCheck(ToUint16(pressureData))
        \o HumidityCheck(ToUint8(humidityData))
        \o FluidLevelCheck(ToUint16(fluidLevelData))

(***************************************************************************)
(* Bounds of the model and the inputs it draws                             *)
(***************************************************************************)
MaxLines == 3        \* lines typed in one run
MaxLineLen == 10     \* length of the longest line typed

Str(chars) == [i \in 1..Len(chars) |-> Ascii[chars[i]]]
Repeat(c, n) == [i \in 1..n |-> c]

\* short lines: the empty line, every line of one or two characters of an
\* alphabet with a member of each class the validation tells apart, the END
\* keyword in every mix of cases and its near misses, and input that strtoul
\* would accept but the validation must not
Alphabet == {"0", "9", "F", "f", "G", "g", "x"}
ShortLines ==
    { <<>> }
        \cup { Str(<<a>>) : a \in Alphabet }
        \cup { Str(<<a, b>>) : a \in Alphabet, b \in Alphabet }
        \cup { Str(<<e, n, d>>) : e \in {"E", "e"}, n \in {"N", "n"}, d \in {"D", "d"} }
        \cup { Str(<<"E", "N">>), Str(<<"E", "N", "D", "D">>), Str(<<"D", "E", "N">>),
               Str(<<"A", "e", "1">>), Str(<<"0", "x", "1">>), Str(<<" ", "1">>),
               Str(<<"-", "1">>) }

\* long lines: 7 to MaxLineLen characters, all hex or with one non-hex character
\* as the last character
LongLines ==
    UNION { { Repeat(Ascii["f"], n),
              Repeat(Ascii["1"], n - 1) \o <<Ascii["G"]>>,
              <<Ascii["G"]>> \o Repeat(Ascii["1"], n - 1) } : n \in 7..MaxLineLen }

Lines == ShortLines \cup LongLines

\* raw field values packed into a record, as the sender would
Pack(t, p, h, f) ==
    BitOr(BitOr(Widen(t), ShiftLeft(Widen(p), PRESSURE_BITS_SHIFT)),
          BitOr(ShiftLeft(Widen(h), HUMIDITY_BITS_SHIFT),
                ShiftLeft(Widen(f), FLUID_LEVEL_BITS_SHIFT)))

TemperatureRaw == 0..255
PressureRaw == 0..127
HumidityRaw == 0..15
FluidLevelRaw == 0..8191

TemperatureEdges == {0, 23, 24, 25, 120, 121, 255}
PressureEdges == {0, 2, 3, 125, 126, 127}
FluidLevelEdges == {0, 1, 8000, 8001, 8191}

\* every value of each field next to quiet values of the others, and every
\* combination of the values at the edges of the alarm thresholds
SensorInputs ==
    { <<t, 20, 0, 100>> : t \in TemperatureRaw }
        \cup { <<50, p, 0, 100>> : p \in PressureRaw }
        \cup { <<50, 20, h, 100>> : h \in HumidityRaw }
        \cup { <<50, 20, 0, f>> : f \in FluidLevelRaw }
        \cup (TemperatureEdges \X PressureEdges \X HumidityRaw \X FluidLevelEdges)

(***************************************************************************)
(* The program                                                             *)
(***************************************************************************)
EmptyBuffer == [i \in 1..HEX_INPUT_BUFFER_SIZE |-> NUL]

\* main's locals after their declarations; the four readings are not
\* initialised and are written before they are first read
Init ==
    /\ pc = "enterData"
    /\ stdin = <<>>
    /\ dataString = EmptyBuffer
    /\ receivedData = Zero32
    /\ temperature = 0
    /\ pressure = 0
    /\ humidity = 0
    /\ fluidLevel = 0
    /\ alarms = <<>>
    /\ status = "none"
    /\ exitCode = -1
    /\ curLine = <<>>
    /\ prevData = EmptyBuffer
    /\ nLines = 0
    /\ nPasses = 0
    /\ sensor = <<0, 0, 0, 0>>

\* the user answers the prompt with a line and a newline
TypeLine ==
    /\ pc = "enterData"
    /\ stdin = <<>>
    /\ nLines < MaxLines
    /\ \E line \in Lines :
        /\ stdin' = line \o <<NEWLINE>>
        /\ curLine' = line
    /\ nLines' = nLines + 1
    /\ UNCHANGED <<pc, dataString, receivedData, temperature, pressure, humidity,
                   fluidLevel, alarms, status, exitCode, prevData, nPasses, sensor>>

\* one pass of enterData's do-while; getchar() blocks until a line is there
EnterDataPass ==
    /\ pc = "enterData"
    /\ \E i \in 1..Len(stdin) : stdin[i] = NEWLINE
    /\ LET pass == enterDataPass(dataString, stdin, MAX_HEX_DIGITS, HEX_INPUT_BUFFER_SIZE)
       IN  /\ stdin' = pass.in
           /\ dataString' = pass.data
           /\ status' = pass.status
           /\ pc' = CASE pass.status = "closing" -> "exited"
                      [] pass.status = "accepted" -> "convert"
                      [] OTHER -> "enterData"
           /\ exitCode' = IF pass.status = "closing" THEN 0 ELSE exitCode
    /\ prevData' = dataString
    /\ nPasses' = nPasses + 1
    /\ UNCHANGED <<receivedData, temperature, pressure, humidity, fluidLevel, alarms,
                   curLine, nLines, sensor>>

ConvertStep ==
    /\ pc = "convert"
    /\ receivedData' = convertToNumber(dataString)
    /\ pc' = "getTemperature"
    /\ UNCHANGED <<stdin, dataString, temperature, pressure, humidity, fluidLevel,
                   alarms, status, exitCode, curLine, prevData, nLines, nPasses, sensor>>

GetTemperatureStep ==
    /\ pc = "getTemperature"
    /\ temperature' = getTemperature(receivedData, TEMPERATURE_BITS_MASK)
    /\ pc' = "getPressure"
    /\ UNCHANGED <<stdin, dataString, receivedData, pressure, humidity, fluidLevel,
                   alarms, status, exitCode, curLine, prevData, nLines, nPasses, sensor>>

GetPressureStep ==
    /\ pc = "getPressure"
    /\ pressure' = getPressure(receivedData, PRESSURE_BITS_MASK, PRESSURE_BITS_SHIFT)
    /\ pc' = "getHumidity"
    /\ UNCHANGED <<stdin, dataString, receivedData, temperature, humidity, fluidLevel,
                   alarms, status, exitCode, curLine, prevData, nLines, nPasses, sensor>>

GetHumidityStep ==
    /\ pc = "getHumidity"
    /\ humidity' = getHumidity(receivedData, HUMIDITY_BITS_MASK, HUMIDITY_BITS_SHIFT)
    /\ pc' = "getFluidLevel"
    /\ UNCHANGED <<stdin, dataString, receivedData, temperature, pressure, fluidLevel,
                   alarms, status, exitCode, curLine, prevData, nLines, nPasses, sensor>>

GetFluidLevelStep ==
    /\ pc = "getFluidLevel"
    /\ fluidLevel' = getFluidLevel(receivedData, FLUID_LEVEL_BITS_SHIFT)
    /\ pc' = "alarm"
    /\ UNCHANGED <<stdin, dataString, receivedData, temperature, pressure, humidity,
                   alarms, status, exitCode, curLine, prevData, nLines, nPasses, sensor>>

\* alarm(), then back to the top of while (1)
AlarmStep ==
    /\ pc = "alarm"
    /\ alarms' = alarm(temperature, pressure, humidity, fluidLevel)
    /\ pc' = "enterData"
    /\ UNCHANGED <<stdin, dataString, receivedData, temperature, pressure, humidity,
                   fluidLevel, status, exitCode, curLine, prevData, nLines, nPasses, sensor>>

Next ==
    \/ TypeLine
    \/ EnterDataPass
    \/ ConvertStep
    \/ GetTemperatureStep
    \/ GetPressureStep
    \/ GetHumidityStep
    \/ GetFluidLevelStep
    \/ AlarmStep

Spec == Init /\ [][Next]_vars

(***************************************************************************)
(* The codec and the evaluator on their own: main's loop body from the     *)
(* first extraction on, for a record packed from chosen field values       *)
(***************************************************************************)
InitCodec ==
    /\ pc = "getTemperature"
    /\ stdin = <<>>
    /\ dataString = EmptyBuffer
    /\ \E s \in SensorInputs :
        /\ sensor = s
        /\ receivedData = Pack(s[1], s[2], s[3], s[4])
    /\ temperature = 0
    /\ pressure = 0
    /\ humidity = 0
    /\ fluidLevel = 0
    /\ alarms = <<>>
    /\ status = "accepted"
    /\ exitCode = -1
    /\ curLine = <<>>
    /\ prevData = EmptyBuffer
    /\ nLines = MaxLines
    /\ nPasses = MaxLines

NextCodec ==
    \/ GetTemperatureStep
    \/ GetPressureStep
    \/ GetHumidityStep
    \/ GetFluidLevelStep
    \/ AlarmStep

SpecCodec == InitCodec /\ [][NextCodec]_vars

\* a full report has been printed for receivedData
Reported == pc = "enterData" /\ status = "accepted"

TypeOK ==
    /\ pc \in {"enterData", "convert", "getTemperature", "getPressure", "getHumidity",
               "getFluidLevel", "alarm", "exited"}
    /\ receivedData \in Word32
    /\ temperature \in -32768..32767
    /\ pressure \in 0..65535
    /\ humidity \in 0..255
    /\ fluidLevel \in 0..65535
    /\ Len(dataString) = HEX_INPUT_BUFFER_SIZE
    /\ exitCode \in {-1, 0}

(***************************************************************************)
(* Reference notions the properties are stated with                        *)
(***************************************************************************)
Range(seq) == { seq[i] : i \in 1..Len(seq) }

\* the number held by bits lo .. lo+width-1 of a word (width <= 16)
RECURSIVE FieldBits(_, _, _)
FieldBits(w, lo, width) ==
    IF width = 0 THEN 0
    ELSE w[lo + width] * (2 ^ (width - 1)) + FieldBits(w, lo, width - 1)

\* the word with exactly bits lo .. lo+width-1 set
FieldMask(lo, width) == [i \in BitIndex |-> IF i > lo /\ i <= lo + width THEN 1 ELSE 0]

TemperatureField == FieldMask(0, 8)
PressureField == FieldMask(8, 7)
HumidityField == FieldMask(15, 4)
FluidLevelField == FieldMask(19, 13)

\* the four extractions as main calls them
Decode(raw) ==
    <<getTemperature(raw, TEMPERATURE_BITS_MASK),
      getPressure(raw, PRESSURE_BITS_MASK, PRESSURE_BITS_SHIFT),
      getHumidity(raw, HUMIDITY_BITS_MASK, HUMIDITY_BITS_SHIFT),
      getFluidLevel(raw, FLUID_LEVEL_BITS_SHIFT)>>

Decoded == <<temperature, pressure, humidity, fluidLevel>>

\* the record with every bit of the given field inverted
FlipField(raw, field) == [i \in BitIndex |-> IF field[i] = 1 THEN 1 - raw[i] ELSE raw[i]]

AlarmOrder ==
    <<"TEMP_LOW", "TEMP_HIGH", "PRESSURE_LOW", "PRESSURE_HIGH", "HUMIDITY",
      "TANK_EMPTY", "TANK_OVERFLOW">>
AlarmRank(a) == CHOOSE k \in 1..Len(AlarmOrder) : AlarmOrder[k] = a

\* the alarm sequences of the records at the edges of the thresholds
EdgeAlarms ==
    { alarm(t - 20, p + 1010, h, f) :
        t \in TemperatureEdges, p \in PressureEdges, h \in {3, 7}, f \in FluidLevelEdges }

\* every choice of one outcome per field, in field order
AlarmCombinations ==
    { tc \o pc_ \o hc \o fc :
        tc \in {<<>>, <<"TEMP_LOW">>, <<"TEMP_HIGH">>},
        pc_ \in {<<>>, <<"PRESSURE_LOW">>, <<"PRESSURE_HIGH">>},
        hc \in {<<>>, <<"HUMIDITY">>},
        fc \in {<<>>, <<"TANK_EMPTY">>, <<"TANK_OVERFLOW">>} }

(***************************************************************************)
(* Properties of the codec and the evaluator (SpecCodec)                   *)
(***************************************************************************)

\* C1: for every raw value the four extractions, called as in main, return the
\* numbers held by bits 0-7, 8-14, 15-18 and 19-31 of the record, the first
\* less 20 as a signed value and the second plus 1010, inside -20..235,
\* 1010..1137, 0..15 and 0..8191: no wrap, sign extension or truncation.
C1_ExtractionExact ==
    Reported =>
        /\ temperature = FieldBits(receivedData, 0, 8) - 20
        /\ temperature \in -20..235
        /\ pressure = FieldBits(receivedData, 8, 7) + 1010
        /\ pressure \in 1010..1137
        /\ humidity = FieldBits(receivedData, 15, 4)
        /\ humidity \in 0..15
        /\ fluidLevel = FieldBits(receivedData, 19, 13)
        /\ fluidLevel \in 0..8191

\* the all-ones record decoded: the top of every range at once
C1_Witness ==
    /\ Reported
    /\ receivedData = Ones32
    /\ Decoded = <<235, 1137, 15, 8191>>

\* the fields do not overlap and cover the 32 bits
LayoutPartitions ==
    /\ BitOr(BitOr(TemperatureField, PressureField),
             BitOr(HumidityField, FluidLevelField)) = Ones32
    /\ \A a, b \in {TemperatureField, PressureField, HumidityField, FluidLevelField} :
           a # b => BitAnd(a, b) = Zero32
    /\ Pack(255, 0, 0, 0) = TemperatureField
    /\ Pack(0, 127, 0, 0) = PressureField
    /\ Pack(0, 0, 15, 0) = HumidityField
    /\ Pack(0, 0, 0, 8191) = FluidLevelField

\* C2: decoding the record packed from t, p, h, f gives t - 20, p + 1010, h, f;
\* the fields partition the 32 bits, and inverting all the bits of one field
\* leaves the three other decoded values as they are.
C2_RoundTrip ==
    /\ LayoutPartitions
    /\ Reported =>
        /\ Decoded = <<sensor[1] - 20, sensor[2] + 1010, sensor[3], sensor[4]>>
        /\ LET dt == Decode(FlipField(receivedData, TemperatureField))
               dp == Decode(FlipField(receivedData, PressureField))
               dh == Decode(FlipField(receivedData, HumidityField))
               df == Decode(FlipField(receivedData, FluidLevelField))
           IN  /\ dt = <<(255 - sensor[1]) - 20, pressure, humidity, fluidLevel>>
               /\ dp = <<temperature, (127 - sensor[2]) + 1010, humidity, fluidLevel>>
               /\ dh = <<temperature, pressure, 15 - sensor[3], fluidLevel>>
               /\ df = <<temperature, pressure, humidity, 8191 - sensor[4]>>

\* a record with every field at a different, non-trivial value, decoded
C2_Witness ==
    /\ Reported
    /\ sensor = <<24, 3, 7, 8001>>
    /\ Decoded = <<4, 1013, 7, 8001>>

\* C3: the temperature alarm is "too low" exactly for temperature <= 4 (raw
\* byte 0..24), "too high" exactly for temperature > 100 (raw byte 121..255),
\* and never both.
C3_TemperatureAlarm ==
    Reported =>
        LET low == "TEMP_LOW" \in Range(alarms)
            high == "TEMP_HIGH" \in Range(alarms)
        IN  /\ temperature \in -20..235
            /\ low <=> temperature <= 4
            /\ low <=> sensor[1] <= 24
            /\ high <=> temperature > 100
            /\ high <=> sensor[1] >= 121
            /\ ~(low /\ high)

\* temperature byte 0x18 = 24: 4 degrees, the inclusive boundary, alarms
C3_Witness ==
    /\ Reported
    /\ sensor[1] = 24
    /\ temperature = 4
    /\ "TEMP_LOW" \in Range(alarms)

\* C4: the pressure alarm is "too low" exactly for pressure < 1013 (raw 0, 1,
\* 2), "too high" exactly for pressure > 1135 (raw 126, 127), and never both.
C4_PressureAlarm ==
    Reported =>
        LET low == "PRESSURE_LOW" \in Range(alarms)
            high == "PRESSURE_HIGH" \in Range(alarms)
        IN  /\ pressure \in 1010..1137
            /\ low <=> pressure < 1013
            /\ low <=> sensor[2] \in {0, 1, 2}
            /\ high <=> pressure > 1135
            /\ high <=> sensor[2] \in {126, 127}
            /\ ~(low /\ high)

\* 1135 hPa, the largest pressure that does not alarm
C4_Witness ==
    /\ Reported
    /\ pressure = 1135
    /\ "PRESSURE_HIGH" \notin Range(alarms)
    /\ "PRESSURE_LOW" \notin Range(alarms)

\* C5: the humidity alarm is raised exactly when more than two of the four
\* humidity bits are set: for 0b0111, 0b1011, 0b1101, 0b1110, 0b1111 only.
C5_HumidityAlarm ==
    Reported =>
        /\ humidity \in 0..15
        /\ ("HUMIDITY" \in Range(alarms)) <=> humidity \in {7, 11, 13, 14, 15}
        /\ ("HUMIDITY" \in Range(alarms)) <=>
               Cardinality({k \in 16..19 : receivedData[k] = 1}) > 2

\* three bits set alarm
C5_Witness ==
    /\ Reported
    /\ humidity = 7
    /\ "HUMIDITY" \in Range(alarms)

\* C6: "tank empty" is raised exactly for fluid level 0, "tank overflow risk"
\* exactly for fluid level > 8000; levels 1..8000 raise neither.
C6_FluidLevelAlarm ==
    Reported =>
        LET empty == "TANK_EMPTY" \in Range(alarms)
            overflow == "TANK_OVERFLOW" \in Range(alarms)
        IN  /\ fluidLevel \in 0..8191
            /\ empty <=> fluidLevel = 0
            /\ overflow <=> fluidLevel > 8000
            /\ fluidLevel \in 1..8000 => ~empty /\ ~overflow
            /\ fluidLevel = sensor[4]

\* 8001 litres alarm
C6_Witness ==
    /\ Reported
    /\ fluidLevel = 8001
    /\ "TANK_OVERFLOW" \in Range(alarms)

\* C7: alarm() checks the four fields on every call: what it prints is the
\* union of the alarms of the fields, in the order temperature, pressure,
\* humidity, fluid level, whatever the earlier checks found; every combination
\* of alarms of different fields occurs; the all-zero record gives
\* temperature-low, pressure-low and tank-empty and no humidity alarm.
C7_AllFieldsChecked ==
    /\ AlarmCombinations \subseteq EdgeAlarms
    /\ Reported =>
        /\ Range(alarms) =
               (IF temperature <= 4 THEN {"TEMP_LOW"} ELSE {})
                   \cup (IF temperature > 100 THEN {"TEMP_HIGH"} ELSE {})
                   \cup (IF pressure < 1013 THEN {"PRESSURE_LOW"} ELSE {})
                   \cup (IF pressure > 1135 THEN {"PRESSURE_HIGH"} ELSE {})
                   \cup (IF humidity \in {7, 11, 13, 14, 15} THEN {"HUMIDITY"} ELSE {})
                   \cup (IF fluidLevel = 0 THEN {"TANK_EMPTY"} ELSE {})
                   \cup (IF fluidLevel > 8000 THEN {"TANK_OVERFLOW"} ELSE {})
        /\ \A i, j \in 1..Len(alarms) :
               i < j => AlarmRank(alarms[i]) < AlarmRank(alarms[j])
        /\ receivedData = Zero32 =>
               alarms = <<"TEMP_LOW", "PRESSURE_LOW", "TANK_EMPTY">>

\* an alarm of each of the four fields in one report
C7_Witness ==
    /\ Reported
    /\ alarms = <<"TEMP_HIGH", "PRESSURE_LOW", "HUMIDITY", "TANK_OVERFLOW">>

(***************************************************************************)
(* Reference notions for the input properties                              *)
(***************************************************************************)
\* the line typed last has been answered by a pass of enterData's loop
Answered == nLines > 0 /\ nPasses = nLines

\* a report is under way for the line typed last, or complete
Reporting ==
    \/ pc \in {"convert", "getTemperature", "getPressure", "getHumidity",
               "getFluidLevel", "alarm"}
    \/ (Reported /\ Answered)

\* the first 8 characters of a line
Significant(line) == SubSeq(line, 1, IF Len(line) < 8 THEN Len(line) ELSE 8)

UpperHexChars == (48..57) \cup (65..70)
LowerHexChars == 97..102
HexChars == UpperHexChars \cup LowerHexChars

Uppercased(str) == [i \in 1..Len(str) |-> IF str[i] \in 97..122 THEN str[i] - 32 ELSE str[i]]

\* E, N, D in any mix of cases
EndAnyCase(line) ==
    /\ Len(line) = 3
    /\ line[1] \in {69, 101}
    /\ line[2] \in {78, 110}
    /\ line[3] \in {68, 100}

\* the base-16 value of a string of at most 8 upper-case hex digits, as a word:
\* the digit k places from the right holds bits 4k .. 4k+3
HexDigits == <<48, 49, 50, 51, 52, 53, 54, 55, 56, 57, 65, 66, 67, 68, 69, 70>>
DigitValue(c) == (CHOOSE k \in 1..16 : HexDigits[k] = c) - 1
HexValue(str) ==
    [i \in BitIndex |->
        LET place == (i - 1) \div 4
        IN  IF place < Len(str)
            THEN BitOf(DigitValue(str[Len(str) - place]), (i - 1) % 4)
            ELSE 0]

\* what convertToNumber and the report are given, and what they make of it
ReportInputValid ==
    Reporting =>
        LET str == CString(dataString)
        IN  /\ \E i \in 0..(HEX_INPUT_BUFFER_SIZE - 1) : At(dataString, i) = NUL
            /\ Len(str) \in 1..8
            /\ \A i \in 1..Len(str) : str[i] \in UpperHexChars
            /\ str = Uppercased(Significant(curLine))
            /\ pc # "convert" => receivedData = HexValue(str)

\* the answer to a line is a retry prompt: no report, no exit, the prompt again
Retried == status \in {"empty", "wrong"} /\ pc = "enterData" /\ exitCode = -1

HasNonHex(str) == \E i \in 1..Len(str) : str[i] \notin HexChars

(***************************************************************************)
(* Properties of the input loop (Spec)                                     *)
(***************************************************************************)

\* C8 as stated: the report is only made from a NUL-terminated string of 1 to 8
\* upper-case hex digits whose value is the raw value decoded, and every empty
\* line and every line with a non-hex character among its first 8 is answered
\* by a retry prompt, never by a report or by the end of the program.
C8_AsStated ==
    /\ ReportInputValid
    /\ Answered /\ (curLine = <<>> \/ HasNonHex(Significant(curLine))) => Retried

\* C8, amended: as stated, except that a line that is END in any mix of cases
\* (which has the non-hex character N) ends the program instead of being
\* retried; a line of 1 or more hex digits of either case is accepted.
C8_ValidatedInput ==
    /\ ReportInputValid
    /\ Answered /\ curLine = <<>> => Retried /\ status = "empty"
    /\ Answered /\ HasNonHex(Significant(curLine)) /\ ~EndAnyCase(curLine) =>
           Retried /\ status = "wrong"
    /\ Answered /\ curLine # <<>> /\ ~HasNonHex(Significant(curLine)) =>
           status = "accepted" /\ exitCode = -1

\* a lower-case line reported from its upper-case form
C8_Witness ==
    /\ Reported /\ Answered
    /\ curLine = Str(<<"f", "0">>)
    /\ CString(dataString) = Str(<<"F", "0">>)
    /\ fluidLevel = 0 /\ temperature = 240 - 20

\* C9 as stated: the program ends exactly on the line END in upper case, with
\* status 0 and no report; "end" and "End" do not end it.
C9_AsStated ==
    /\ Answered => (pc = "exited" <=> curLine = Str(<<"E", "N", "D">>))
    /\ pc = "exited" => exitCode = 0 /\ status = "closing"

\* C9, amended: the program ends exactly on a line that is END compared without
\* regard to case (the line is upper-cased before the comparison, so "end" and
\* "End" end it too), with status 0 and no report; no other line ends it.
C9_EndAnyCase ==
    /\ Answered => (pc = "exited" <=> EndAnyCase(curLine))
    /\ pc = "exited" <=> exitCode = 0
    /\ pc = "exited" => status = "closing" /\ Answered /\ stdin = <<>>
    /\ status = "closing" => pc = "exited"

\* the lower-case keyword ends the program
C9_Witness ==
    /\ pc = "exited"
    /\ exitCode = 0
    /\ curLine = Str(<<"e", "n", "d">>)

\* C10: the answer to a line is the answer its first 8 characters get from a
\* fresh, all-NUL buffer: same branch, same string, same raw value; the whole
\* line, newline included, has been read, so nothing of it is left for the
\* next line.
C10_LineAlone ==
    Answered =>
        LET ref == enterDataPass(EmptyBuffer, Significant(curLine) \o <<NEWLINE>>,
                                 MAX_HEX_DIGITS, HEX_INPUT_BUFFER_SIZE)
        IN  /\ stdin = <<>>
            /\ status = ref.status
            /\ pc = "exited" <=> ref.status = "closing"
            /\ status = "accepted" =>
                   /\ CString(dataString) = CString(ref.data)
                   /\ pc # "convert" => receivedData = convertToNumber(ref.data)

\* a line longer than 8 characters, accepted over a buffer that flushData had
\* cleared only up to its first NUL
C10_Witness ==
    /\ Answered
    /\ status = "accepted"
    /\ Len(curLine) > 8
    /\ At(prevData, 0) = NUL
    /\ \E i \in 1..7 : At(prevData, i) # NUL

====
